---- MODULE Spec2Model ----
(***************************************************************************)
(* Model of the shuttle-roid test servers.                                 *)
(*                                                                         *)
(*   main.py     the ingestion store: POST /ingest, GET /data, GET /update *)
(*   morning.py  the static catalog reader: GET /update/check, GET /update,*)
(*               GET /api/schedule/{car_no}                                *)
(*                                                                         *)
(* The two services are separate processes and share no state.  SpecStore  *)
(* is the behaviour of main.py; SpecUpdate, SpecSchedule and SpecFresh are   *)
(* the static readers.                                                     *)
(***************************************************************************)
EXTENDS Integers, Sequences, FiniteSets, TLC

VARIABLES
    _latest,    \* main.py:31   _latest: Optional[StoredData]
    _lock,      \* main.py:32   _lock: asyncio.Lock  (TRUE = locked)
    running,    \* the task the event loop is executing, 0 when it is idle
    pc,         \* per request task: where its handler stands
    kind,       \* per request task: the endpoint it calls
    req,        \* per request task: the handler's arguments
    rec,        \* per request task: the local `record` of ingest
    resp,       \* per request task: the response sent
    now,        \* the wall clock, in half seconds
    lastWrite,  \* history: the record built by the ingest that wrote the slot last
    maxDone,    \* history: the latest stamp among the ingests that returned, -1 if none
    dataJson,   \* the file "data.json" in the working directory
    dbFile,     \* morning.py:11  DB_FILE, the file data/db.json
    schedFile,  \* morning.py:13  SCHEDULES_FILE, the file data/schedules.json
    today,      \* morning.py:82  date.today().isoformat()
    boot,       \* history: the contents of the files when the server started
    during      \* history, per request: the contents its file had while it ran

storeVars ==
    <<_latest, _lock, running, pc, kind, req, rec, resp, now, lastWrite, maxDone, dataJson>>

catalogVars == <<dbFile, schedFile, today, boot, during>>

vars == <<storeVars, catalogVars>>

----------------------------------------------------------------------------
(* Bounds *)

NumTasks == 2
MaxClock == 2

Tasks == 1..NumTasks

----------------------------------------------------------------------------
(* Values *)

None == [type |-> "None"]

JStr(s) == [type |-> "str", val |-> s]
JInt(s) == [type |-> "int", val |-> s]

\* JSON request bodies sent to POST /ingest: objects as functions from key to value.
ReportCamelX ==
    ("vehicleNo" :> JStr("X")) @@ ("route" :> JStr("R")) @@ ("stopLocation" :> JStr("L"))
ReportSnakeX ==
    ("vehicle_no" :> JStr("X")) @@ ("route" :> JStr("R")) @@ ("stop_location" :> JStr("L"))
ReportExtraY ==
    ("vehicleNo" :> JStr("Y")) @@ ("route" :> JStr("S")) @@ ("stopLocation" :> JStr("M"))
        @@ ("extra" :> JInt("123"))
ReportNoVehicle ==
    ("route" :> JStr("R")) @@ ("stopLocation" :> JStr("L"))
ReportIntRoute ==
    ("vehicleNo" :> JStr("X")) @@ ("route" :> JInt("7")) @@ ("stopLocation" :> JStr("L"))

\* request.client: an address, or None when the server gives no peer.
Peer == [type |-> "Address", host |-> "10.0.0.7"]

\* The POST /ingest requests that are sent: a body and the peer it comes from.
Requests ==
    { [body |-> ReportCamelX, client |-> Peer],
      [body |-> ReportSnakeX, client |-> Peer],
      [body |-> ReportExtraY, client |-> None],
      [body |-> ReportNoVehicle, client |-> Peer],
      [body |-> ReportIntRoute, client |-> None] }


\* A file on disk: absent, not JSON, or a JSON document.
FileMissing   == [state |-> "missing"]
FileMalformed == [state |-> "malformed"]
FileJson(doc) == [state |-> "json", doc |-> doc]

DataDoc == ("routes" :> JStr("r1")) @@ ("stops" :> JStr("s1"))

DataFiles == {FileMissing, FileMalformed, FileJson(DataDoc)}

OrgIDs == {1, 2}

----------------------------------------------------------------------------
(* main.py: the report schema *)

\* One field of BusReport: pydantic looks the alias up first and, with
\* populate_by_name, the field name next; the value must be a string.
Field(body, alias, name) ==
    IF alias \in DOMAIN body THEN body[alias]
    ELSE IF name \in DOMAIN body THEN body[name]
    ELSE [type |-> "missing", val |-> ""]

\* Variant: a field that fails validation is filled with its value or "".
BusReportDefaults(body) ==
    LET v == Field(body, "vehicleNo", "vehicle_no")
        r == Field(body, "route", "route")
        s == Field(body, "stopLocation", "stop_location")
    IN  [type |-> "BusReport", vehicle_no |-> v.val, route |-> r.val,
         stop_location |-> s.val]

\* BusReport validation of a request body; keys that are no field are dropped
\* (extra = "ignore").
BusReport(body) ==
    LET v == Field(body, "vehicleNo", "vehicle_no")
        r == Field(body, "route", "route")
        s == Field(body, "stopLocation", "stop_location")
    IN  IF v.type = "str" /\ r.type = "str" /\ s.type = "str"
        THEN [type |-> "BusReport", vehicle_no |-> v.val, route |-> r.val,
              stop_location |-> s.val]
        ELSE [type |-> "ValidationError"]

StoredData(received_at, source_ip, payload) ==
    [type |-> "StoredData", received_at |-> received_at, source_ip |-> source_ip,
     payload |-> payload]

\* main.py:115
client_ip(client) == IF client.type = "None" THEN "unknown" ELSE client.host

\* main.py:117  datetime.now().isoformat(timespec="seconds"): the clock counts
\* half seconds and the stamp keeps the whole seconds; stamps of one format
\* order as their seconds do, so the stamp is kept as the number of seconds.
Timestamp(clock) == clock \div 2

----------------------------------------------------------------------------
(* main.py: the slot and its lock *)

\* Variant: the record in the slot keeps its stamp.
ReplaceKeepStamp(old, new) ==
    IF old = None THEN new ELSE [new EXCEPT !.received_at = old.received_at]

\* Variant: only the payload of the record in the slot is updated.
ReplacePayloadOnly(old, new) ==
    IF old = None THEN new ELSE [old EXCEPT !.payload = new.payload]

\* main.py:123  _latest = record
Replace(old, new) == new

\* Variant: entering the lock always yields to the event loop.
AcquireAlwaysSuspends(locked, waiters) == TRUE

\* asyncio.Lock.acquire() as used by `async with _lock` (main.py:121, 131): the
\* caller is suspended only when the lock is held or another task waits for it.
AcquireSuspends(locked, waiters) == locked \/ waiters

----------------------------------------------------------------------------
(* main.py: responses *)

Ok(body) == [status |-> 200, body |-> body]

\* FastAPI answers a body that fails BusReport validation with 422 before the
\* handler is entered.
Unprocessable == [status |-> 422, body |-> [type |-> "ValidationError"]]

\* An exception the handler does not catch: the server's plain 500 response.
ServerError(exc) == [status |-> 500, body |-> [type |-> "InternalServerError", exc |-> exc]]

\* raise HTTPException(status_code=..., detail=f"<text>{arg}")
HTTPException(status, text, arg) ==
    [status |-> status,
     body |-> [type |-> "HTTPException", detail |-> [text |-> text, arg |-> arg]]]

NoReq == [payload |-> None, client |-> None]

\* main.py:134-139  _read_json: a missing file is reported, a file that is not
\* JSON makes json.load raise JSONDecodeError, which nothing here catches.
main_read_json(file) ==
    IF file.state = "missing" THEN HTTPException(500, "File not found: ", "data.json")
    ELSE IF file.state = "malformed" THEN ServerError("JSONDecodeError")
    ELSE Ok(file.doc)

\* main.py:141-145  get_db_json
main_get_db_json(orgID, file) == main_read_json(file)

----------------------------------------------------------------------------
(* main.py: the request handlers, as tasks of one event loop *)

\* The state of the catalog files, fixed where a service does not read them.
DbDoc(flag) == ("updateFlag" :> flag) @@ ("payload" :> JStr("p"))

CatalogAtRest ==
    /\ dbFile = FileJson(DbDoc(5))
    /\ schedFile = FileMissing
    /\ today = "2026-11-05"
    /\ boot = [db |-> dbFile, sched |-> schedFile]

TasksAtRest ==
    /\ running = 0
    /\ pc = [t \in Tasks |-> "idle"]
    /\ kind = [t \in Tasks |-> "none"]
    /\ req = [t \in Tasks |-> NoReq]
    /\ rec = [t \in Tasks |-> None]
    /\ resp = [t \in Tasks |-> None]
    /\ during = [t \in Tasks |-> {}]

StoreAtRest ==
    /\ _latest = None
    /\ _lock = FALSE
    /\ now = 0
    /\ lastWrite = None
    /\ maxDone = -1

StoreInit ==
    /\ CatalogAtRest
    /\ TasksAtRest
    /\ StoreAtRest
    /\ dataJson \in DataFiles

\* A request is served by the free task of the lowest number.
NextToArrive(t) == pc[t] = "idle" /\ \A u \in Tasks : u < t => pc[u] # "idle"

\* POST /ingest arrives: the body is validated against BusReport (main.py:114);
\* a valid request becomes a task of the event loop.
PostIngest(t, body, client) ==
    /\ NextToArrive(t)
    /\ kind' = [kind EXCEPT ![t] = "ingest"]
    /\ LET payload == BusReport(body) IN
        IF payload.type = "ValidationError"
        THEN /\ pc' = [pc EXCEPT ![t] = "done"]
             /\ resp' = [resp EXCEPT ![t] = Unprocessable]
             /\ req' = req
        ELSE /\ pc' = [pc EXCEPT ![t] = "ready"]
             /\ req' = [req EXCEPT ![t] = [payload |-> payload, client |-> client]]
             /\ resp' = resp
    /\ UNCHANGED <<_latest, _lock, running, rec, now, lastWrite, maxDone, dataJson, catalogVars>>

\* GET /data arrives.
GetData(t) ==
    /\ NextToArrive(t)
    /\ kind' = [kind EXCEPT ![t] = "get_data"]
    /\ pc' = [pc EXCEPT ![t] = "ready"]
    /\ UNCHANGED <<_latest, _lock, running, req, rec, resp, now, lastWrite, maxDone, dataJson, catalogVars>>

\* The idle event loop runs a task: one that has not started, or one that
\* waits for the lock once the lock is free (it then holds the lock).
Schedule(t) ==
    /\ running = 0
    /\ pc[t] \in {"ready", "waiting"}
    /\ pc[t] = "waiting" => ~_lock
    /\ running' = t
    /\ _lock' = (_lock \/ pc[t] = "waiting")
    /\ pc' = [pc EXCEPT ![t] = IF pc[t] = "waiting" THEN "locked"
                                ELSE IF kind[t] = "ingest" THEN "start" ELSE "acquire"]
    /\ UNCHANGED <<_latest, kind, req, rec, resp, now, lastWrite, maxDone, dataJson, catalogVars>>

\* main.py:115-120  ingest builds its record.
IngestBuild(t) ==
    /\ running = t
    /\ pc[t] = "start"
    /\ rec' = [rec EXCEPT ![t] =
                  StoredData(Timestamp(now), client_ip(req[t].client), req[t].payload)]
    /\ pc' = [pc EXCEPT ![t] = "acquire"]
    /\ UNCHANGED <<_latest, _lock, running, kind, req, resp, now, lastWrite, maxDone, dataJson, catalogVars>>

\* main.py:121, 131  async with _lock: enter.
LockAcquire(t) ==
    /\ running = t
    /\ pc[t] = "acquire"
    /\ IF AcquireSuspends(_lock, \E u \in Tasks : pc[u] = "waiting")
       THEN /\ pc' = [pc EXCEPT ![t] = "waiting"]
            /\ running' = 0
            /\ _lock' = _lock
       ELSE /\ pc' = [pc EXCEPT ![t] = "locked"]
            /\ running' = running
            /\ _lock' = TRUE
    /\ UNCHANGED <<_latest, kind, req, rec, resp, now, lastWrite, maxDone, dataJson, catalogVars>>

\* main.py:122-123  the slot is replaced.
IngestWrite(t) ==
    /\ running = t
    /\ pc[t] = "locked"
    /\ kind[t] = "ingest"
    /\ _latest' = Replace(_latest, rec[t])
    /\ lastWrite' = rec[t]
    /\ pc' = [pc EXCEPT ![t] = "exit"]
    /\ UNCHANGED <<_lock, running, kind, req, rec, resp, now, maxDone, dataJson, catalogVars>>

\* main.py:132  return _latest: the value returned is taken under the lock.
GetDataRead(t) ==
    /\ running = t
    /\ pc[t] = "locked"
    /\ kind[t] = "get_data"
    /\ resp' = [resp EXCEPT ![t] = Ok(_latest)]
    /\ pc' = [pc EXCEPT ![t] = "exit"]
    /\ UNCHANGED <<_latest, _lock, running, kind, req, rec, now, lastWrite, maxDone, dataJson, catalogVars>>

\* main.py:121-124, 131-132  async with _lock: exit, and the handler returns.
LockRelease(t) ==
    /\ running = t
    /\ pc[t] = "exit"
    /\ _lock' = FALSE
    /\ running' = 0
    /\ pc' = [pc EXCEPT ![t] = "done"]
    /\ resp' = [resp EXCEPT ![t] = IF kind[t] = "ingest" THEN Ok(rec[t]) ELSE resp[t]]
    /\ maxDone' = IF kind[t] = "ingest" /\ rec[t].received_at > maxDone
                  THEN rec[t].received_at ELSE maxDone
    /\ UNCHANGED <<_latest, kind, req, rec, now, lastWrite, dataJson, catalogVars>>

\* GET /update of main.py: a plain `def` handler, run to its end on a worker
\* thread beside the event loop.
GetUpdateMain(t, orgID) ==
    /\ NextToArrive(t)
    /\ kind' = [kind EXCEPT ![t] = "get_db_json"]
    /\ resp' = [resp EXCEPT ![t] = main_get_db_json(orgID, dataJson)]
    /\ pc' = [pc EXCEPT ![t] = "done"]
    /\ UNCHANGED <<_latest, _lock, running, req, rec, now, lastWrite, maxDone, dataJson, catalogVars>>

\* The response has been sent and the request is over: the task and the
\* handler's locals are gone.
Finish(t) ==
    /\ pc[t] = "done"
    /\ pc' = [pc EXCEPT ![t] = "idle"]
    /\ kind' = [kind EXCEPT ![t] = "none"]
    /\ req' = [req EXCEPT ![t] = NoReq]
    /\ rec' = [rec EXCEPT ![t] = None]
    /\ resp' = [resp EXCEPT ![t] = None]
    /\ during' = [during EXCEPT ![t] = {}]
    /\ UNCHANGED <<_latest, _lock, running, now, lastWrite, maxDone, dataJson>>
    /\ UNCHANGED <<dbFile, schedFile, today, boot>>

\* Half a second passes.
Tick ==
    /\ now < MaxClock
    /\ now' = now + 1
    /\ UNCHANGED <<_latest, _lock, running, pc, kind, req, rec, resp, lastWrite, maxDone, dataJson, catalogVars>>

StoreNext ==
    \/ \E t \in Tasks, r \in Requests : PostIngest(t, r.body, r.client)
    \/ \E t \in Tasks : GetData(t)
    \/ \E t \in Tasks : Schedule(t)
    \/ \E t \in Tasks : IngestBuild(t)
    \/ \E t \in Tasks : LockAcquire(t)
    \/ \E t \in Tasks : IngestWrite(t)
    \/ \E t \in Tasks : GetDataRead(t)
    \/ \E t \in Tasks : LockRelease(t)
    \/ \E t \in Tasks, orgID \in OrgIDs : GetUpdateMain(t, orgID)
    \/ \E t \in Tasks : Finish(t)
    \/ Tick

SpecStore == StoreInit /\ [][StoreNext]_vars

----------------------------------------------------------------------------
(* Properties of the ingestion store *)

IsBusReport(p) ==
    /\ DOMAIN p = {"type", "vehicle_no", "route", "stop_location"}
    /\ p.type = "BusReport"
    /\ p.vehicle_no \in {"X", "Y"} /\ p.route \in {"R", "S"} /\ p.stop_location \in {"L", "M"}

IsStoredData(r) ==
    /\ DOMAIN r = {"type", "received_at", "source_ip", "payload"}
    /\ r.type = "StoredData"
    /\ r.received_at \in 0..Timestamp(now)
    /\ r.source_ip \in {"10.0.0.7", "unknown"}
    /\ IsBusReport(r.payload)

\* The record one ingest call of request q stamped at time s builds.
RecordOf(q, s) == StoredData(s, client_ip(q.client), BusReport(q.body))

ValidRequests == {q \in Requests : BusReport(q.body).type = "BusReport"}

BuiltBySingleIngest(r) ==
    \E q \in ValidRequests, s \in 0..Timestamp(now) : r = RecordOf(q, s)

\* C1: the slot holds nothing or exactly one complete StoredData; after any
\* sequence of ingest calls it holds the record built by the ingest that wrote
\* last, all three fields being that call's, and get_data returns that slot.
ReplaceSemantics ==
    /\ _latest = None \/ IsStoredData(_latest)
    /\ _latest = lastWrite
    /\ lastWrite # None => BuiltBySingleIngest(lastWrite)
    /\ \A t \in Tasks : kind[t] = "get_data" /\ pc[t] = "exit" => resp[t] = Ok(_latest)

\* C1 witness: an ingest of X stamped 0 has returned, an ingest of Y from another
\* peer stamped later has replaced it, and a get_data has returned the Y record.
ReplaceSemanticsWitness ==
    \E t, u \in Tasks :
        /\ kind[u] = "ingest" /\ pc[u] = "done" /\ resp[u].status = 200
        /\ resp[u].body = RecordOf([body |-> ReportCamelX, client |-> Peer], 0)
        /\ kind[t] = "get_data" /\ pc[t] = "done"
        /\ resp[t].body = RecordOf([body |-> ReportExtraY, client |-> None], 1)
        /\ _latest = resp[t].body

\* C2: every get_data answers 200 with either the empty result or a record equal
\* in received_at, source_ip and payload to the record one ingest call built;
\* while it holds the lock, that record is the one of the last writer.
ReadersSeeWholeRecords ==
    \A t \in Tasks :
        kind[t] = "get_data" /\ resp[t] # None =>
            /\ resp[t].status = 200
            /\ resp[t].body = None \/ BuiltBySingleIngest(resp[t].body)
            /\ pc[t] = "exit" => resp[t].body = lastWrite

\* C2 witness: a get_data has read a record while an ingest that arrived before
\* the read is still to run, and another get_data reads with a request pending.
ReadersSeeWholeRecordsWitness ==
    \E t, u \in Tasks :
        /\ kind[t] = "get_data" /\ pc[t] = "exit" /\ resp[t].body # None
        /\ kind[u] = "ingest" /\ pc[u] = "ready"

NoIngestInFlight == \A t \in Tasks : kind[t] = "ingest" => pc[t] = "done"

\* C3: once every ingest call has returned, the stamp of the record in the slot
\* is not earlier than the stamp of any record an ingest that returned built.
LatestIsMostRecent ==
    (NoIngestInFlight /\ maxDone >= 0) =>
        (_latest # None /\ _latest.received_at >= maxDone)

\* C3 witness: two ingest calls with different stamps have both returned.
LatestIsMostRecentWitness ==
    \E t, u \in Tasks :
        /\ kind[t] = "ingest" /\ pc[t] = "done" /\ resp[t].status = 200
        /\ kind[u] = "ingest" /\ pc[u] = "done" /\ resp[u].status = 200
        /\ resp[t].body.received_at < resp[u].body.received_at
        /\ _latest = resp[u].body

\* A required field is absent under both spellings, or a value given for it is
\* not a string.
LacksRequiredField(body) ==
    \E f \in {<<"vehicleNo", "vehicle_no">>, <<"route", "route">>,
              <<"stopLocation", "stop_location">>} :
        \/ f[1] \notin DOMAIN body /\ f[2] \notin DOMAIN body
        \/ \E k \in DOMAIN body \cap {f[1], f[2]} : body[k].type # "str"

\* C4: an ingest whose report lacks a required field or has a wrongly typed one
\* is answered with the validation error and leaves the slot as it was; no
\* request that is answered with a failure changes the slot.
FailuresLeaveSlot ==
    [][ /\ \A t \in Tasks, q \in Requests :
             (PostIngest(t, q.body, q.client) /\ LacksRequiredField(q.body)) =>
                 (resp'[t] = Unprocessable /\ _latest' = _latest)
        /\ \A t \in Tasks :
             (resp'[t] # resp[t] /\ resp'[t] # None /\ resp'[t].status # 200) =>
                 _latest' = _latest
      ]_vars

\* C4 witness: the slot holds a record and requests have failed beside it: an
\* ingest with the validation error and a GET /update with a server error.
FailuresLeaveSlotWitness ==
    \E t, u \in Tasks :
        /\ _latest # None
        /\ kind[t] = "ingest" /\ resp[t] = Unprocessable
        /\ kind[u] = "get_db_json" /\ resp[u] # None /\ resp[u].status = 500

----------------------------------------------------------------------------
(* morning.py: values *)

MaxEntries == 2

JBool(b) == [type |-> "bool", val |-> b]
JList(items) == [type |-> "list", items |-> items]

\* dict.get(key, default)
Get(d, key, default) == IF key \in DOMAIN d THEN d[key] ELSE default

\* A path given as a pathlib.Path, and one given as a plain string.
PathObj(name) == [type |-> "Path", name |-> name]
PathStr(name) == [type |-> "str", name |-> name]

\* morning.py:11, 13
DB_FILE == PathObj("db.json")
SCHEDULES_FILE == PathObj("schedules.json")

\* The update descriptors on disk: with a flag, and without the field.
ServerFlags == {-1, 0, 5}
ClientFlags == {-1, 0, 4, 5, 6}
DbFiles ==
    {FileMissing, FileMalformed, FileJson("payload" :> JStr("p"))}
        \cup {FileJson(DbDoc(f)) : f \in ServerFlags}

\* Schedule entries: carNo, an optional date, and trips (absent in some).
Dates == {"2026-11-05", "2024-01-01"}
Absent == [type |-> "absent"]
Trip(depTime, routeId) == [depTime |-> depTime, routeId |-> routeId]
Trips1 == JList(<<Trip("08:00", 1)>>)
Trips2 == JList(<<Trip("09:30", 2), Trip("17:00", 1)>>)
TripsBad == JList(<<"depTime" :> "08:00">>)

Entry(carNo, date, trips) ==
    ("carNo" :> carNo)
        @@ (IF date = "absent" THEN <<>> ELSE "date" :> date)
        @@ (IF trips = Absent THEN <<>> ELSE "trips" :> trips)

Entries ==
    {Entry("A", d, tr) : d \in Dates \cup {"absent"}, tr \in {Trips1, Trips2, Absent}}
        \cup {Entry("A", "2026-11-05", TripsBad),
              Entry("B", "2026-11-05", Trips1), Entry("B", "absent", Trips2)}

SeqsUpTo(S, n) == UNION {[1..k -> S] : k \in 0..n}

SchedulesDoc(items) == "schedules" :> JList(items)

\* The schedules files on disk: absent, not JSON, without the "schedules" key,
\* with a "schedules" that is no array, and with every array of entries.
SchedFiles ==
    {FileMissing, FileMalformed, FileJson("version" :> JStr("1")),
     FileJson("schedules" :> JStr("none"))}
        \cup {FileJson(SchedulesDoc(items)) : items \in SeqsUpTo(Entries, MaxEntries)}

Cars == {"A", "ZZZ"}

----------------------------------------------------------------------------
(* morning.py: the handlers' functions *)

\* Variant: the contents loaded when the server started are served.
OpenAtStartup(file, atBoot) == atBoot

\* morning.py:55  path.open(): each call opens the file as it is on disk now;
\* nothing read when the server started is kept.
Open(file, atBoot) == file

\* morning.py:51-58  _read_json: `path` must be a Path (a str has no exists());
\* a missing file and a file that is not JSON are both reported as 500.
_read_json(path, file) ==
    IF path.type # "Path" THEN ServerError("AttributeError")
    ELSE IF file.state = "missing"
         THEN HTTPException(500, "Server data file not found: ", path.name)
    ELSE IF file.state = "malformed"
         THEN HTTPException(500, "Invalid JSON in ", path.name)
    ELSE Ok(file.doc)

\* int() of the flag: the descriptors hold integers, which int() returns as
\* they are.
PyInt(v) == v

\* Variant: equal flags count as an update.
CheckUpdateNotLess(flag, orgID, file) ==
    LET db == _read_json(DB_FILE, file) IN
    IF db.status # 200 THEN db
    ELSE Ok(JBool(PyInt(Get(db.body, "updateFlag", 0)) >= flag))

\* morning.py:61-65  check_update
check_update(flag, orgID, file) ==
    LET db == _read_json(DB_FILE, file) IN
    IF db.status # 200 THEN db
    ELSE Ok(JBool(PyInt(Get(db.body, "updateFlag", 0)) > flag))

\* morning.py:68-72  get_db_json: _read_json is given the string "data.json".
get_db_json(orgID, file) == _read_json(PathStr("data.json"), file)

IsTrip(t) == "depTime" \in DOMAIN t /\ "routeId" \in DOMAIN t

ScheduleResponse(carNo, date, trips) ==
    [type |-> "ScheduleResponse", carNo |-> carNo, date |-> date, trips |-> trips]

\* morning.py:91-97  the chosen entry is validated and converted.
Convert(s) ==
    IF "trips" \notin DOMAIN s \/ s["trips"].type # "list"
    THEN HTTPException(500, "schedule item must contain 'trips' array", "")
    ELSE IF \E i \in 1..Len(s["trips"].items) : ~IsTrip(s["trips"].items[i])
    THEN ServerError("ValidationError")
    ELSE Ok(ScheduleResponse(
                s["carNo"],
                IF "date" \in DOMAIN s THEN JStr(s["date"]) ELSE None,
                [i \in 1..Len(s["trips"].items) |->
                    Trip(s["trips"].items[i]["depTime"], s["trips"].items[i]["routeId"])]))

\* Variant: the last matching entry is the only candidate.
CandidatesLast(schedules, car_no, today_str) ==
    LET dated == SelectSeq(schedules, LAMBDA s :
                     Get(s, "carNo", "") = car_no /\ Get(s, "date", today_str) = today_str)
        byCar == SelectSeq(schedules, LAMBDA s : Get(s, "carNo", "") = car_no)
        found == IF Len(dated) = 0 THEN byCar ELSE dated
    IN  IF Len(found) = 0 THEN found ELSE <<found[Len(found)]>>

\* morning.py:82-86  the candidates: the entries of the car dated today or
\* undated, and when there is none, the entries of the car.
candidates(schedules, car_no, today_str) ==
    LET dated == SelectSeq(schedules, LAMBDA s :
                     Get(s, "carNo", "") = car_no /\ Get(s, "date", today_str) = today_str)
        byCar == SelectSeq(schedules, LAMBDA s : Get(s, "carNo", "") = car_no)
    IN  IF Len(dated) = 0 THEN byCar ELSE dated

\* morning.py:75-97  get_schedule
get_schedule(car_no, file, today_str) ==
    LET doc == _read_json(SCHEDULES_FILE, file) IN
    IF doc.status # 200 THEN doc
    ELSE LET schedules == Get(doc.body, "schedules", JList(<<>>)) IN
         IF schedules.type # "list"
         THEN HTTPException(500, "schedules.json must contain 'schedules' array", "")
         ELSE LET found == candidates(schedules.items, car_no, today_str) IN
              IF Len(found) = 0
              THEN HTTPException(404, "No schedule for carNo=", car_no)
              ELSE Convert(found[1])

----------------------------------------------------------------------------
(* morning.py: the requests; each plain `def` handler runs on a worker thread *)

storeState == <<_latest, _lock, running, rec, now, lastWrite, maxDone>>

\* GET /update/check?flag=&orgID= is called.
CheckUpdateStart(t, flag, orgID) ==
    /\ NextToArrive(t)
    /\ kind' = [kind EXCEPT ![t] = "check_update"]
    /\ req' = [req EXCEPT ![t] = [flag |-> flag, orgID |-> orgID]]
    /\ pc' = [pc EXCEPT ![t] = "call"]
    /\ during' = [during EXCEPT ![t] = {dbFile}]
    /\ UNCHANGED <<storeState, resp, dataJson, dbFile, schedFile, today, boot>>

\* morning.py:63-65  the descriptor is read and the answer returned.
CheckUpdateReturn(t) ==
    /\ pc[t] = "call"
    /\ kind[t] = "check_update"
    /\ resp' = [resp EXCEPT ![t] =
                   check_update(req[t].flag, req[t].orgID, Open(dbFile, boot.db))]
    /\ pc' = [pc EXCEPT ![t] = "done"]
    /\ UNCHANGED <<storeState, kind, req, dataJson, catalogVars>>

\* GET /api/schedule/{car_no} is called.
GetScheduleStart(t, car_no) ==
    /\ NextToArrive(t)
    /\ kind' = [kind EXCEPT ![t] = "get_schedule"]
    /\ req' = [req EXCEPT ![t] = [car_no |-> car_no]]
    /\ pc' = [pc EXCEPT ![t] = "call"]
    /\ during' = [during EXCEPT ![t] = {schedFile}]
    /\ UNCHANGED <<storeState, resp, dataJson, dbFile, schedFile, today, boot>>

\* morning.py:77-97  the schedules are read and the answer returned.
GetScheduleReturn(t) ==
    /\ pc[t] = "call"
    /\ kind[t] = "get_schedule"
    /\ resp' = [resp EXCEPT ![t] =
                   get_schedule(req[t].car_no, Open(schedFile, boot.sched), today)]
    /\ pc' = [pc EXCEPT ![t] = "done"]
    /\ UNCHANGED <<storeState, kind, req, dataJson, catalogVars>>

\* GET /update of morning.py is served.
GetUpdateMorning(t, orgID) ==
    /\ NextToArrive(t)
    /\ kind' = [kind EXCEPT ![t] = "get_db_json_morning"]
    /\ resp' = [resp EXCEPT ![t] = get_db_json(orgID, dataJson)]
    /\ pc' = [pc EXCEPT ![t] = "done"]
    /\ UNCHANGED <<storeState, req, dataJson, catalogVars>>

\* The update descriptor is rewritten from outside the server.
EditDb(new) ==
    /\ new # dbFile
    /\ dbFile' = new
    /\ during' = [t \in Tasks |->
                    IF pc[t] = "call" /\ kind[t] = "check_update"
                    THEN during[t] \cup {new} ELSE during[t]]
    /\ UNCHANGED <<storeVars, schedFile, today, boot>>

\* The schedules file is rewritten from outside the server.
EditSchedules(new) ==
    /\ new # schedFile
    /\ schedFile' = new
    /\ during' = [t \in Tasks |->
                    IF pc[t] = "call" /\ kind[t] = "get_schedule"
                    THEN during[t] \cup {new} ELSE during[t]]
    /\ UNCHANGED <<storeVars, dbFile, today, boot>>

----------------------------------------------------------------------------
(* The update check and the payload fetch of both services *)

UpdateInit ==
    /\ StoreAtRest
    /\ TasksAtRest
    /\ dataJson \in DataFiles
    /\ dbFile \in DbFiles
    /\ schedFile = FileMissing
    /\ today = "2026-11-05"
    /\ boot = [db |-> dbFile, sched |-> schedFile]

UpdateNext ==
    \/ \E t \in Tasks, flag \in ClientFlags, orgID \in OrgIDs : CheckUpdateStart(t, flag, orgID)
    \/ \E t \in Tasks : CheckUpdateReturn(t)
    \/ \E t \in Tasks, orgID \in OrgIDs : GetUpdateMorning(t, orgID)
    \/ \E t \in Tasks, orgID \in OrgIDs : GetUpdateMain(t, orgID)
    \/ \E t \in Tasks : Finish(t)

SpecUpdate == UpdateInit /\ [][UpdateNext]_vars

(* The schedule lookup over every schedules file *)

ScheduleInit ==
    /\ StoreAtRest
    /\ TasksAtRest
    /\ dataJson = FileMissing
    /\ dbFile = FileMissing
    /\ schedFile \in SchedFiles
    /\ today \in Dates
    /\ boot = [db |-> dbFile, sched |-> schedFile]

ScheduleNext ==
    \/ \E t \in Tasks, car_no \in Cars : GetScheduleStart(t, car_no)
    \/ \E t \in Tasks : GetScheduleReturn(t)
    \/ \E t \in Tasks : Finish(t)

SpecSchedule == ScheduleInit /\ [][ScheduleNext]_vars

(* The catalog files edited while the server runs *)

FreshDbFiles == {FileJson(DbDoc(0)), FileJson(DbDoc(5))}
FreshSchedFiles ==
    {FileJson(SchedulesDoc(<<Entry("A", "2026-11-05", Trips1)>>)),
     FileJson(SchedulesDoc(<<Entry("A", "2026-11-05", Trips2)>>))}

FreshInit ==
    /\ StoreAtRest
    /\ TasksAtRest
    /\ dataJson = FileMissing
    /\ dbFile \in FreshDbFiles
    /\ schedFile \in FreshSchedFiles
    /\ today = "2026-11-05"
    /\ boot = [db |-> dbFile, sched |-> schedFile]

FreshNext ==
    \/ \E new \in FreshDbFiles : EditDb(new)
    \/ \E new \in FreshSchedFiles : EditSchedules(new)
    \/ \E t \in Tasks : CheckUpdateStart(t, 4, 1)
    \/ \E t \in Tasks : CheckUpdateReturn(t)
    \/ \E t \in Tasks : GetScheduleStart(t, "A")
    \/ \E t \in Tasks : GetScheduleReturn(t)
    \/ \E t \in Tasks : Finish(t)

SpecFresh == FreshInit /\ [][FreshNext]_vars

----------------------------------------------------------------------------
(* Properties of the static readers *)

Done(t, k) == pc[t] = "done" /\ kind[t] = k

\* C6: whenever data.json exists and is well-formed JSON, GET /update of either
\* service answers with the whole document, for every orgID.
FetchReturnsWholeSource ==
    \A t \in Tasks :
        (pc[t] = "done" /\ kind[t] \in {"get_db_json", "get_db_json_morning"}
            /\ dataJson.state = "json") =>
                resp[t] = Ok(dataJson.doc)

IsParseError(r) ==
    /\ r.status = 500
    /\ r.body.type = "HTTPException"
    /\ r.body.detail.text = "Invalid JSON in "

\* C7: when the backing file is not JSON, the update check (morning.py) and
\* the payload fetch (main.py) each answer 500 with the parse failure, and
\* nothing else.
MalformedIsParseError ==
    \A t \in Tasks :
        /\ (Done(t, "check_update") /\ dbFile.state = "malformed") => IsParseError(resp[t])
        /\ (Done(t, "get_db_json") /\ dataJson.state = "malformed") => IsParseError(resp[t])

\* The server's flag: the field of the descriptor, 0 when the field is absent.
ServerFlag(doc) == IF "updateFlag" \in DOMAIN doc THEN doc["updateFlag"] ELSE 0

\* C9: the update check answers true exactly when the server's flag (0 when
\* absent) is strictly greater than the client's, whatever the orgID.
UpdateCheckIsStrictlyGreater ==
    /\ \A t \in Tasks :
         (Done(t, "check_update") /\ dbFile.state = "json") =>
             resp[t] = Ok(JBool(ServerFlag(dbFile.doc) > req[t].flag))
    /\ \A t, u \in Tasks :
         (Done(t, "check_update") /\ Done(u, "check_update")
             /\ req[t].flag = req[u].flag) => resp[t] = resp[u]

\* C9 witness: with the server's flag at 5, a client at 4 is told true and a
\* client of another organisation at 5 is told false.
UpdateCheckIsStrictlyGreaterWitness ==
    \E t, u \in Tasks :
        /\ dbFile = FileJson(DbDoc(5))
        /\ Done(t, "check_update") /\ req[t] = [flag |-> 4, orgID |-> 1]
        /\ resp[t] = Ok(JBool(TRUE))
        /\ Done(u, "check_update") /\ req[u] = [flag |-> 5, orgID |-> 2]
        /\ resp[u] = Ok(JBool(FALSE))

\* C9 witness for the absent field: the flag counts as 0.
UpdateCheckAbsentFlagWitness ==
    \E t, u \in Tasks :
        /\ dbFile.state = "json" /\ "updateFlag" \notin DOMAIN dbFile.doc
        /\ Done(t, "check_update") /\ req[t].flag = -1 /\ resp[t] = Ok(JBool(TRUE))
        /\ Done(u, "check_update") /\ req[u].flag = 0 /\ resp[u] = Ok(JBool(FALSE))

\* The schedules file holds a document whose "schedules" is an array.
HasEntries(file) ==
    /\ file.state = "json"
    /\ "schedules" \in DOMAIN file.doc
    /\ file.doc["schedules"].type = "list"

Min(S) == CHOOSE x \in S : \A y \in S : x <= y

\* The entry the stated algorithm selects, as its place in the collection; 0
\* when no entry has the carNo.
Selected(items, carNo, day) ==
    LET ofCar == {i \in 1..Len(items) :
                     "carNo" \in DOMAIN items[i] /\ items[i]["carNo"] = carNo}
        ofDay == {i \in ofCar : "date" \notin DOMAIN items[i] \/ items[i]["date"] = day}
    IN  IF ofDay # {} THEN Min(ofDay) ELSE IF ofCar # {} THEN Min(ofCar) ELSE 0

\* C5: get_schedule answers from the first entry of the car dated today or
\* undated; when there is none, from the first entry of the car; when the car
\* has no entry, with 404.
ScheduleSelection ==
    \A t \in Tasks :
        (Done(t, "get_schedule") /\ HasEntries(schedFile)) =>
            LET items == schedFile.doc["schedules"].items
                k == Selected(items, req[t].car_no, today)
            IN  /\ k = 0 <=> resp[t].status = 404
                /\ k > 0 => resp[t] = Convert(items[k])
                /\ resp[t].status = 200 =>
                     /\ resp[t].body.carNo = req[t].car_no
                     /\ resp[t].body.date =
                            (IF "date" \in DOMAIN items[k] THEN JStr(items[k]["date"]) ELSE None)
                     /\ Len(resp[t].body.trips) = Len(items[k]["trips"].items)

\* C5 witness: an entry of the car with another date comes first, an entry of
\* today second, and the answer is the second.
ScheduleSelectionWitness ==
    \E t \in Tasks :
        /\ Done(t, "get_schedule") /\ HasEntries(schedFile)
        /\ LET items == schedFile.doc["schedules"].items IN
            /\ Len(items) = 2
            /\ items[1] = Entry("A", "2024-01-01", Trips1)
            /\ items[2] = Entry("A", "2026-11-05", Trips2)
            /\ today = "2026-11-05"
            /\ req[t].car_no = "A"
            /\ resp[t].status = 200
            /\ resp[t].body.date = JStr("2026-11-05")
            /\ Len(resp[t].body.trips) = 2

\* C5 witness: no entry of the car is dated today and the first one is taken.
ScheduleFallbackWitness ==
    \E t \in Tasks :
        /\ Done(t, "get_schedule") /\ HasEntries(schedFile)
        /\ LET items == schedFile.doc["schedules"].items IN
            /\ Len(items) = 2
            /\ items[1] = Entry("B", "absent", Trips2)
            /\ items[2] = Entry("A", "2024-01-01", Trips1)
            /\ today = "2026-11-05"
            /\ req[t].car_no = "A"
            /\ resp[t].status = 200
            /\ resp[t].body.date = JStr("2024-01-01")

\* C8: whenever the schedules document holds no top-level array of entries,
\* the array field missing included, get_schedule answers 500 with the schema
\* error, never 404 and never an entry.
SchemaErrorWithoutArray ==
    \A t \in Tasks :
        (Done(t, "get_schedule") /\ schedFile.state = "json" /\ ~HasEntries(schedFile)) =>
            resp[t] = HTTPException(500, "schedules.json must contain 'schedules' array", "")

\* C10: a call answers from contents its file had while the call ran: a call
\* that starts after a change answers from the changed file.
NoCaching ==
    \A t \in Tasks :
        /\ Done(t, "check_update") =>
              \E c \in during[t] : resp[t] = check_update(req[t].flag, req[t].orgID, c)
        /\ Done(t, "get_schedule") =>
              \E c \in during[t] : resp[t] = get_schedule(req[t].car_no, c, today)

\* C10 witness: both files were changed after the server started, a call of
\* each kind started after the change, and each answered from the new file,
\* not as the old file would have had it answer.
NoCachingWitness ==
    \E t, u \in Tasks :
        /\ Done(t, "check_update") /\ during[t] = {dbFile} /\ dbFile # boot.db
        /\ resp[t] = check_update(req[t].flag, req[t].orgID, dbFile)
        /\ resp[t] # check_update(req[t].flag, req[t].orgID, boot.db)
        /\ Done(u, "get_schedule") /\ during[u] = {schedFile} /\ schedFile # boot.sched
        /\ resp[u] = get_schedule(req[u].car_no, schedFile, today)
        /\ resp[u] # get_schedule(req[u].car_no, boot.sched, today)

====
